---- MODULE Spec2Model ----
(***************************************************************************)
(* Model of dask/dataframe/multi.py: partition alignment (align), pruning  *)
(* (require), and the graph builders join_indexed_dataframes,              *)
(* concat_indexed_dataframes and hash_join.                                *)
(*                                                                         *)
(* A dataset is represented by its metadata only: its divisions (a         *)
(* non-decreasing sequence of boundary values) and, for hash_join, the     *)
(* join-key value of the rows held by each partition.  Every function of   *)
(* the module is pure, so a behaviour is a single call: from the idle      *)
(* state one function is called on inputs drawn from bounded sets and the  *)
(* state records what it returned or raised.                               *)
(*                                                                         *)
(* Python positions are 0-based, TLA+ sequences 1-based: a Python index j  *)
(* is element j + 1 of the sequence.  Cursors, partition indices and the   *)
(* "present" positions of require keep their 0-based Python values.        *)
(***************************************************************************)
EXTENDS Integers, Sequences, FiniteSets

\* ---------------------------------------------------------------- bounds
\* boundary values are drawn from 1..MaxVal
MaxVal == 5
\* an input dataset has 1..MaxParts partitions
MaxParts == 2
\* require is called on matrices of 0..MaxRows rows
MaxRows == 3
\* and of 1..MaxSlots slots
MaxSlots == 2
\* hash_join: join-key values are drawn from 1..MaxKey
MaxKey == 2
\* hash_join: an input has 1..MaxHParts partitions, and npartitions, when
\* given, is in 1..MaxHParts
MaxHParts == 2

\* ------------------------------------------------------------ value model
\* Python's None (an absent slot, the fallback task)
None == <<>>

\* dfs2[i]._name: the name of the i-th repartitioned dataset
Names == <<"a", "b", "c", "d", "e", "f">>

\* the key (dfs2[i]._name, j) of partition j of the i-th repartitioned dataset
PartRef(i, j) == <<Names[i], j>>

\* pd.DataFrame([], columns=df.columns): the empty table shaped like input i
Empty(i) == <<"empty", i>>

Last(s) == s[Len(s)]

Min(S) == CHOOSE x \in S : \A y \in S : x <= y
Max(S) == CHOOSE x \in S : \A y \in S : x >= y

\* ----------------------------------------------------------------- helpers
\* toolz.merge_sorted on two sorted sequences
RECURSIVE Merge2(_, _)
Merge2(s, t) ==
    IF s = <<>> THEN t
    ELSE IF t = <<>> THEN s
    ELSE IF Head(s) <= Head(t) THEN <<Head(s)>> \o Merge2(Tail(s), t)
    ELSE <<Head(t)>> \o Merge2(s, Tail(t))

\* toolz.merge_sorted(*seqs): the sorted merge of all the sequences
RECURSIVE merge_sorted(_)
merge_sorted(seqs) ==
    IF seqs = <<>> THEN <<>>
    ELSE Merge2(Head(seqs), merge_sorted(Tail(seqs)))

\* toolz.unique: each element once, at its first occurrence
RECURSIVE UniqueFrom(_, _)
UniqueFrom(s, seen) ==
    IF s = <<>> THEN <<>>
    ELSE IF Head(s) \in seen THEN UniqueFrom(Tail(s), seen)
    ELSE <<Head(s)>> \o UniqueFrom(Tail(s), seen \cup {Head(s)})

unique(s) == UniqueFrom(s, {})

\* bisect.bisect_left on a sorted sequence: the number of elements < x
bisect_left(seq, x) == Cardinality({i \in 1..Len(seq) : seq[i] < x})

\* bisect.bisect_right on a sorted sequence: the number of elements <= x
bisect_right(seq, x) == Cardinality({i \in 1..Len(seq) : seq[i] <= x})

\* a faulty variant of bound: the right end is searched with bisect_left, which
\* drops the boundary equal to right
bound_excl(seq, left, right) ==
    SubSeq(seq, bisect_left(seq, left) + 1, bisect_left(seq, right))

\* bound(seq, left, right): seq[bisect_left(seq, left): bisect_right(seq, right)]
bound(seq, left, right) ==
    SubSeq(seq, bisect_left(seq, left) + 1, bisect_right(seq, right))

\* core.repartition(df, divisions), by its contract: the divisions of the
\* dataset it returns are the divisions it was given
repartition(df, divs) == divs

\* ------------------------------------------------------------------- align
\* a faulty variant of AlignStep: the cursor guard is j < len(divs), off by one
AlignStep_guard(divs, j, d) == j < Len(divs) /\ divs[j + 1] = d

\* the test of the inner loop of align, for one input with cursor j:
\* j < len(divs) - 1 and divs[j] == d
AlignStep(divs, j, d) == j < Len(divs) - 1 /\ divs[j + 1] = d

\* a faulty variant of AlignWalk: the loop runs over all the common
\* divisions (for d in divisions), the last included
RECURSIVE AlignWalk_all(_, _, _, _, _)
AlignWalk_all(dfs2, divisions, r, inds, result) ==
    IF r > Len(divisions) THEN result
    ELSE LET d == divisions[r]
             L == [i \in 1..Len(dfs2) |->
                     IF AlignStep(dfs2[i], inds[i], d)
                     THEN PartRef(i, inds[i]) ELSE None]
             inds2 == [i \in 1..Len(dfs2) |->
                         IF AlignStep(dfs2[i], inds[i], d)
                         THEN inds[i] + 1 ELSE inds[i]]
         IN AlignWalk_all(dfs2, divisions, r + 1, inds2, Append(result, L))

\* the loop over the common divisions but the last: r is the 1-based position
\* of d, inds the cursors, result the rows built so far
RECURSIVE AlignWalk(_, _, _, _, _)
AlignWalk(dfs2, divisions, r, inds, result) ==
    IF r > Len(divisions) - 1 THEN result
    ELSE LET d == divisions[r]
             L == [i \in 1..Len(dfs2) |->
                     IF AlignStep(dfs2[i], inds[i], d)
                     THEN PartRef(i, inds[i]) ELSE None]
             inds2 == [i \in 1..Len(dfs2) |->
                         IF AlignStep(dfs2[i], inds[i], d)
                         THEN inds[i] + 1 ELSE inds[i]]
         IN AlignWalk(dfs2, divisions, r + 1, inds2, Append(result, L))

\* align(*dfs): the repartitioned datasets (their divisions), the common
\* divisions and the alignment matrix
align(dfs) ==
    LET divisions == unique(merge_sorted(dfs))
        divisionss == [i \in 1..Len(dfs) |->
                          bound(divisions, Head(dfs[i]), Last(dfs[i]))]
        dfs2 == [i \in 1..Len(dfs) |-> repartition(dfs[i], divisionss[i])]
    IN [dfs2 |-> dfs2,
        divisions |-> divisions,
        parts |-> AlignWalk(dfs2, divisions, 1, [i \in 1..Len(dfs) |-> 0], <<>>)]

\* ----------------------------------------------------------------- require
\* [j for j, p in enumerate(parts) if p[i] is not None]: the 0-based
\* positions of the rows whose slot i (0-based) is present
Present(parts, i) == {j \in 0..(Len(parts) - 1) : parts[j + 1][i + 1] # None}

\* the Python slice s[lo:hi] for 0 <= lo, 0 <= hi
Slice(s, lo, hi) == SubSeq(s, lo + 1, IF hi < Len(s) THEN hi ELSE Len(s))

\* a faulty variant of Narrow: the rows are cut at max(present) + 2, like the
\* divisions, which keeps one row too many
Narrow_wide(divisions, parts, present) ==
    [divisions |-> Slice(divisions, Min(present), Max(present) + 2),
     parts |-> Slice(parts, Min(present), Max(present) + 2)]

\* one pass of the loop of require, for a non-empty present:
\* divisions[min(present): max(present) + 2], parts[min(present): max(present) + 1]
Narrow(divisions, parts, present) ==
    [divisions |-> Slice(divisions, Min(present), Max(present) + 2),
     parts |-> Slice(parts, Min(present), Max(present) + 1)]

\* the loop of require over the slots still to be required; min() and max()
\* of an empty present raise ValueError, and then nothing is returned
RECURSIVE RequireLoop(_, _, _)
RequireLoop(divisions, parts, req) ==
    IF req = <<>> THEN [err |-> "none", divisions |-> divisions, parts |-> parts]
    ELSE LET present == Present(parts, Head(req))
         IN IF present = {}
            THEN [err |-> "ValueError", divisions |-> <<>>, parts |-> <<>>]
            ELSE LET n == Narrow(divisions, parts, present)
                 IN RequireLoop(n.divisions, n.parts, Tail(req))

\* require(divisions, parts, required): "if not required" returns the
\* arguments unchanged, as does the loop over an empty list
require(divisions, parts, req) == RequireLoop(divisions, parts, req)

\* ------------------------------------------------- join_indexed_dataframes
\* a faulty variant of required: an outer join requires the left slot
required_outer ==
    [left |-> <<0>>, right |-> <<1>>, inner |-> <<0, 1>>, outer |-> <<0>>]

\* the module-level dict required: the slots a join kind needs present
required ==
    [left |-> <<0>>, right |-> <<1>>, inner |-> <<0, 1>>, outer |-> <<>>]

\* the events of align that reach a collaborator: one repartition request
\* per input, in input order (map(repartition, dfs, divisionss))
AlignTrace(dfs) == [i \in 1..Len(dfs) |-> <<"repartition", i>>]

\* the task of one row (a, b) of the pruned matrix: the conditional
\* expression that builds dsk
JoinTask(a, b, how) ==
    IF a # None /\ b # None THEN <<"join", a, b, how>>
    ELSE IF a # None /\ how \in {"left", "outer"} THEN <<"join", a, Empty(2), how>>
    ELSE IF b # None /\ how \in {"right", "outer"} THEN <<"join", Empty(1), b, how>>
    ELSE None

\* what a call leaves behind: the error raised ("none" when it returned),
\* the collaborator requests made up to there, align's three results, and
\* the divisions, rows and tasks of the dataset returned
Outcome(err, trace, al, divisions, parts, dsk) ==
    [err |-> err, trace |-> trace,
     dfs2 |-> al.dfs2, adivisions |-> al.divisions, aparts |-> al.parts,
     divisions |-> divisions, parts |-> parts, dsk |-> dsk]

NoAlign == [dfs2 |-> <<>>, divisions |-> <<>>, parts |-> <<>>]

\* join_indexed_dataframes(lhs, rhs, how): align, then the lookup
\* required[how] (KeyError for a kind that is no key), then require
\* (ValueError from an empty present), then one task per surviving row
join_indexed_dataframes(lhs, rhs, how) ==
    LET al == align(<<lhs, rhs>>)
        tr == AlignTrace(<<lhs, rhs>>)
    IN IF how \notin DOMAIN required
       THEN Outcome("KeyError", tr, al, <<>>, <<>>, <<>>)
       ELSE LET rq == require(al.divisions, al.parts, required[how])
            IN IF rq.err # "none"
               THEN Outcome(rq.err, tr, al, <<>>, <<>>, <<>>)
               ELSE Outcome("none", tr, al, rq.divisions, rq.parts,
                        [i \in 1..Len(rq.parts) |->
                            JoinTask(rq.parts[i][1], rq.parts[i][2], how)])

\* ----------------------------------------------- concat_indexed_dataframes
\* concat_indexed_dataframes(dfs, join): the assertion on join, then align,
\* then one pd.concat task per row with an empty table for each absent slot
concat_indexed_dataframes(dfs, join) ==
    IF join \notin {"inner", "outer"}
    THEN Outcome("AssertionError", <<>>, NoAlign, <<>>, <<>>, <<>>)
    ELSE LET al == align(dfs)
             parts2 == [r \in 1..Len(al.parts) |->
                          [i \in 1..Len(dfs) |->
                              IF al.parts[r][i] # None
                              THEN al.parts[r][i] ELSE Empty(i)]]
         IN Outcome("none", AlignTrace(dfs), al, al.divisions, al.parts,
                 [r \in 1..Len(parts2) |-> <<"concat", parts2[r], join>>])

\* --------------------------------------------------------------- hash_join
\* For hash_join a dataset is the sequence of its partitions, each holding
\* one row, given by its join-key value; a row is named by the position of
\* its partition.

\* shuffle.shuffle(df, on, npartitions), by its contract: npartitions buckets
\* (0-based), a row in the bucket that the hash of its key selects
shuffle(df, hash, npartitions) ==
    [i \in 0..(npartitions - 1) |->
        {p \in 1..Len(df) : hash[df[p]] % npartitions = i}]

\* a faulty variant of MergeTask: the right operand is the next bucket
MergeTask_shift(i, how, npartitions) ==
    <<"merge", <<"lhs2", i>>, <<"rhs2", (i + 1) % npartitions>>, how>>

\* the task with key (name, i): pdmerge of (lhs2._name, i) and (rhs2._name, i)
MergeTask(i, how, npartitions) ==
    <<"merge", <<"lhs2", i>>, <<"rhs2", i>>, how>>

\* hash_join(lhs, on_left, rhs, on_right, how, npartitions): npartitions
\* defaults to max(lhs.npartitions, rhs.npartitions); both sides are
\* shuffled; one task per i in range(npartitions); divisions all None
hash_join(lhs, rhs, hash, how, npartitions) ==
    LET np == IF npartitions = None
              THEN Max({Len(lhs), Len(rhs)})
              ELSE npartitions[1]
    IN [npartitions |-> np,
        lhs2 |-> shuffle(lhs, hash, np),
        rhs2 |-> shuffle(rhs, hash, np),
        dsk |-> [i \in 0..(np - 1) |-> MergeTask(i, how, np)],
        divisions |-> [i \in 1..(np + 1) |-> None]]

\* ------------------------------------------------------------------- state
\* fn: the function called ("idle" before the call); args: its arguments;
\* ret: what it returned or raised
VARIABLES fn, args, ret
vars == <<fn, args, ret>>

\* the sequences of length n over S
SeqN(S, n) == [1..n -> S]

IsSorted(s) == \A i \in 1..(Len(s) - 1) : s[i] <= s[i + 1]

\* the divisions a dataset can have: non-decreasing, one boundary more than
\* its partitions
Divisions ==
    {s \in UNION {SeqN(1..MaxVal, n + 1) : n \in 1..MaxParts} : IsSorted(s)}

IsStrict(s) == \A i \in 1..(Len(s) - 1) : s[i] < s[i + 1]

\* those without a repeated boundary
StrictDivisions == {s \in Divisions : IsStrict(s)}

\* the argument lists of align and concat_indexed_dataframes: one or two
\* datasets of any divisions
DfsLists == SeqN(Divisions, 1) \cup SeqN(Divisions, 2)

\* the join kinds a caller passes: the four of required, and one that is
\* not a key of it
Hows == {"left", "right", "inner", "outer", "cross"}

\* a matrix of n rows and ns slots with the given presence pattern; the
\* present slots of a column are numbered in row order
MatrixOf(pres, n, ns) ==
    [r \in 1..n |-> [k \in 1..ns |->
        IF pres[r][k]
        THEN PartRef(k, Cardinality({q \in 1..(r - 1) : pres[q][k]}))
        ELSE None]]

Init ==
    /\ fn = "idle"
    /\ args = <<>>
    /\ ret = <<>>

\* a direct call of align(*dfs), on one or two datasets of any divisions or
\* on three of strictly increasing divisions
Align ==
    /\ fn = "idle"
    /\ \E dfs \in DfsLists \cup SeqN(StrictDivisions, 3) :
        /\ fn' = "align"
        /\ args' = [dfs |-> dfs]
        /\ ret' = Outcome("none", AlignTrace(dfs), align(dfs), <<>>, <<>>, <<>>)

\* a direct call of require(divisions, parts, required) on any matrix with
\* one row per adjacent pair of divisions (1, 3, 5, ...: require never reads
\* the boundary values)
Require ==
    /\ fn = "idle"
    /\ \E n \in 0..MaxRows : \E ns \in 1..MaxSlots :
       \E pres \in SeqN(SeqN(BOOLEAN, ns), n) :
       \E req \in UNION {SeqN(0..(ns - 1), l) : l \in 0..ns} :
        LET divisions == [i \in 1..(n + 1) |-> 2 * i - 1]
            parts == MatrixOf(pres, n, ns)
        IN /\ fn' = "require"
           /\ args' = [divisions |-> divisions, parts |-> parts, required |-> req]
           /\ ret' = require(divisions, parts, req)

\* a call of join_indexed_dataframes(lhs, rhs, how)
JoinIndexed ==
    /\ fn = "idle"
    /\ \E lhs \in Divisions : \E rhs \in Divisions : \E how \in Hows :
        /\ fn' = "join"
        /\ args' = [dfs |-> <<lhs, rhs>>, how |-> how]
        /\ ret' = join_indexed_dataframes(lhs, rhs, how)

\* a call of concat_indexed_dataframes(dfs, join)
ConcatIndexed ==
    /\ fn = "idle"
    /\ \E dfs \in DfsLists :
       \E join \in {"inner", "outer", "left"} :
        /\ fn' = "concat"
        /\ args' = [dfs |-> dfs, how |-> join]
        /\ ret' = concat_indexed_dataframes(dfs, join)

\* a call of hash_join(lhs, on_left, rhs, on_right, how, npartitions)
HashJoin ==
    /\ fn = "idle"
    /\ \E nl \in 1..MaxHParts : \E nr \in 1..MaxHParts :
       \E lhs \in SeqN(1..MaxKey, nl) : \E rhs \in SeqN(1..MaxKey, nr) :
       \E hash \in [1..MaxKey -> 0..(MaxHParts - 1)] :
       \E np \in {None} \cup {<<k>> : k \in 1..MaxHParts} :
       \E how \in {"inner", "left"} :
        /\ fn' = "hash_join"
        /\ args' = [lhs |-> lhs, rhs |-> rhs, hash |-> hash, how |-> how,
                    npartitions |-> np]
        /\ ret' = hash_join(lhs, rhs, hash, how, np)

Next == Align \/ Require \/ JoinIndexed \/ ConcatIndexed \/ HashJoin

Spec == Init /\ [][Next]_vars

\* -------------------------------------------------------------- properties
\* the calls that ran align to its end
RanAlign == fn \in {"align", "join"} \/ (fn = "concat" /\ ret.err = "none")

\* slot i (0-based) of row r (1-based) of a matrix is present
Has(parts, r, i) == parts[r][i + 1] # None

\* the present rows of slot i are contiguous
Contiguous(parts, i) ==
    \A p \in Present(parts, i) : \A q \in Present(parts, i) :
        \A j \in p..q : j \in Present(parts, i)

\* the elements of divs within [lo, hi], in order
Within(divs, lo, hi) ==
    LET In(v) == lo <= v /\ v <= hi
    IN SelectSeq(divs, In)

\* the values of a sequence
Range(s) == {s[i] : i \in 1..Len(s)}

Derived(divisions, parts, k) ==
    LET Delimits(p) == \/ (p <= Len(parts) /\ parts[p][k] # None)
                       \/ (p >= 2 /\ parts[p - 1][k] # None)
        pos == SelectSeq([p \in 1..Len(divisions) |-> p], Delimits)
    IN [q \in 1..Len(pos) |-> divisions[pos[q]]]

\* C3 as stated: for two datasets, the divisions re-derived from the matrix
\* are each input's original divisions.
C3_DerivedIsOriginal ==
    (RanAlign /\ Len(args.dfs) = 2)
    => \A k \in 1..2 :
          Derived(ret.adivisions, ret.aparts, k) = args.dfs[k]

\* an input's boundary sequence is left as it was by align: it is strictly
\* increasing and no boundary of another input lies strictly inside its range
Untouched(dfs, k) ==
    /\ IsStrict(dfs[k])
    /\ \A j \in 1..Len(dfs) : \A v \in Range(dfs[j]) :
          (Head(dfs[k]) < v /\ v < Last(dfs[k])) => v \in Range(dfs[k])

\* C3 as amended: for two datasets, the divisions re-derived for an input
\* whose first and last boundaries differ are its repartitioned divisions:
\* they start and end at the original first and last boundary and hold every
\* original boundary value, and they are the original divisions exactly when
\* those are strictly increasing and no boundary of the other input lies
\* strictly inside the range; for an input whose first and last boundaries
\* are equal no slot is present and nothing is re-derived.
C3_DerivedIsRepartitioned ==
    (RanAlign /\ Len(args.dfs) = 2)
    => \A k \in 1..2 :
          LET orig == args.dfs[k]
              der == Derived(ret.adivisions, ret.aparts, k)
          IN IF Head(orig) = Last(orig) THEN der = <<>>
             ELSE /\ der = ret.dfs2[k]
                  /\ Head(der) = Head(orig) /\ Last(der) = Last(orig)
                  /\ Range(orig) \subseteq Range(der)
                  /\ (der = orig) <=> Untouched(args.dfs, k)

\* align on two datasets, one of which is split by a boundary of the other
C3_Witness ==
    /\ fn = "align" /\ Len(args.dfs) = 2
    /\ IsStrict(args.dfs[1]) /\ IsStrict(args.dfs[2])
    /\ Derived(ret.adivisions, ret.aparts, 1) # args.dfs[1]
    /\ Derived(ret.adivisions, ret.aparts, 2) = args.dfs[2]
    /\ Len(args.dfs[2]) = 3

\* the two ranges have no point in common
Disjoint(dfs) == Last(dfs[1]) < Head(dfs[2]) \/ Last(dfs[2]) < Head(dfs[1])

\* the number of slots present in row r
NPresent(parts, r) == Cardinality({k \in 1..Len(parts[r]) : parts[r][k] # None})

SomeRowSatisfies(parts, req) ==
    \E r \in 1..Len(parts) : \A q \in 1..Len(req) : Has(parts, r, req[q])

\* C5: when no row has all the required slots present, require, and so
\* join_indexed_dataframes, returns an empty result and raises nothing.
C5_EmptyResultNoError ==
    /\ (fn = "require" /\ ~SomeRowSatisfies(args.parts, args.required))
       => (ret.err = "none" /\ ret.parts = <<>>)
    /\ (/\ fn = "join" /\ args.how \in DOMAIN required
        /\ ~SomeRowSatisfies(ret.aparts, required[args.how]))
       => (ret.err = "none" /\ ret.parts = <<>> /\ ret.dsk = <<>>)

\* C6: given that shuffle puts rows of equal key in the bucket of the same
\* index on both sides, task i of hash_join merges left bucket i with right
\* bucket i, for i in 0..npartitions-1, and every pair of a left and a right
\* row of equal key is in the operands of exactly one task.
C6_PairInExactlyOneTask ==
    fn = "hash_join" =>
       /\ DOMAIN ret.dsk = 0..(ret.npartitions - 1)
       /\ \A i \in DOMAIN ret.dsk :
             ret.dsk[i][2] = <<"lhs2", i>> /\ ret.dsk[i][3] = <<"rhs2", i>>
       /\ \A l \in 1..Len(args.lhs) : \A r \in 1..Len(args.rhs) :
             args.lhs[l] = args.rhs[r] =>
                Cardinality({i \in DOMAIN ret.dsk :
                                /\ l \in ret.lhs2[ret.dsk[i][2][2]]
                                /\ r \in ret.rhs2[ret.dsk[i][3][2]]}) = 1

\* a hash join on several buckets in which two keys, each on both sides,
\* went to different buckets
C6_Witness ==
    /\ fn = "hash_join" /\ ret.npartitions >= 2
    /\ \E l1 \in 1..Len(args.lhs) : \E l2 \in 1..Len(args.lhs) :
       \E r1 \in 1..Len(args.rhs) : \E r2 \in 1..Len(args.rhs) :
          /\ args.lhs[l1] = args.rhs[r1] /\ args.lhs[l2] = args.rhs[r2]
          /\ args.lhs[l1] # args.lhs[l2]
          /\ \E i \in DOMAIN ret.lhs2 : l1 \in ret.lhs2[i] /\ l2 \notin ret.lhs2[i]

\* the join kind passed is not one the function supports
Unsupported ==
    \/ (fn = "join" /\ args.how \notin DOMAIN required)
    \/ (fn = "concat" /\ args.how \notin {"inner", "outer"})

\* C7: a call of join_indexed_dataframes or concat_indexed_dataframes with
\* an unsupported join kind is rejected before any alignment work: it raises
\* and no repartition was requested on any input before that.
C7_RejectedBeforeAlign ==
    Unsupported => (ret.err # "none" /\ ret.trace = <<>>)

\* C8: the matrix of align has one row per adjacent pair of common
\* divisions; slot k of row r is present exactly when [common[r],
\* common[r+1]] lies inside [first, last] of input k; the present slots of
\* input k reference its repartitioned partitions 0, 1, 2, ... in row order,
\* each once; so a row with every slot absent lies inside no input's range.
C8_MatrixShape ==
    RanAlign =>
       LET common == ret.adivisions
           parts == ret.aparts
           Inside(r, k) == /\ Head(args.dfs[k]) <= common[r]
                           /\ common[r + 1] <= Last(args.dfs[k])
       IN /\ Len(parts) = Len(common) - 1
          /\ \A r \in 1..Len(parts) :
                /\ Len(parts[r]) = Len(args.dfs)
                /\ \A k \in 1..Len(args.dfs) :
                      /\ (parts[r][k] # None) <=> Inside(r, k)
                      /\ parts[r][k] # None =>
                            parts[r][k] =
                               PartRef(k, Cardinality(
                                  {q \in 1..(r - 1) : parts[q][k] # None}))
                /\ NPresent(parts, r) = 0 =>
                      \A k \in 1..Len(args.dfs) : ~Inside(r, k)
          /\ \A k \in 1..Len(args.dfs) :
                Cardinality(Present(parts, k - 1)) = Len(ret.dfs2[k]) - 1

\* align on three datasets: a row with every slot absent, a row with every
\* slot present, and an input referenced in several rows
C8_Witness ==
    /\ fn = "align" /\ Len(args.dfs) = 3
    /\ \E r \in 1..Len(ret.aparts) : NPresent(ret.aparts, r) = 0
    /\ \E r \in 1..Len(ret.aparts) : NPresent(ret.aparts, r) >= 2
    /\ \E k \in 1..3 : Cardinality(Present(ret.aparts, k - 1)) >= 2

\* the range [start, end] (0-based row positions) that is the intersection
\* over the required slots of [min present, max present] on the matrix given
\* to require; empty when start > end or when some required slot is present
\* nowhere
InterStart(parts, req) ==
    Max({Min(Present(parts, req[q])) : q \in 1..Len(req)})
InterEnd(parts, req) ==
    Min({Max(Present(parts, req[q])) : q \in 1..Len(req)})
InterEmpty(parts, req) ==
    \/ \E q \in 1..Len(req) : Present(parts, req[q]) = {}
    \/ InterStart(parts, req) > InterEnd(parts, req)

\* C9: for every matrix and non-empty required list, require keeps exactly
\* the rows start..end and the divisions start..end+1 of the intersection of
\* the per-slot ranges (no row when the intersection is empty).
C9_SequentialIsIntersection ==
    (fn = "require" /\ args.required # <<>>)
    => /\ ret.err = "none"
       /\ IF InterEmpty(args.parts, args.required)
          THEN ret.parts = <<>>
          ELSE LET a == InterStart(args.parts, args.required)
                   b == InterEnd(args.parts, args.required)
               IN /\ ret.parts = Slice(args.parts, a, b + 1)
                  /\ ret.divisions = Slice(args.divisions, a, b + 2)

\* C10: every task join_indexed_dataframes emits is a local join: of the two
\* partitions of the row, or of the one present with an empty table when the
\* join kind keeps that side; None is never emitted as a task.
C10_EveryTaskIsJoin ==
    (fn = "join" /\ ret.err = "none")
    => \A i \in 1..Len(ret.dsk) :
          LET a == ret.parts[i][1]
              b == ret.parts[i][2]
          IN /\ ret.dsk[i] # None
             /\ \/ (a # None /\ b # None
                    /\ ret.dsk[i] = <<"join", a, b, args.how>>)
                \/ (a # None /\ b = None /\ args.how \in {"left", "outer"}
                    /\ ret.dsk[i] = <<"join", a, Empty(2), args.how>>)
                \/ (a = None /\ b # None /\ args.how \in {"right", "outer"}
                    /\ ret.dsk[i] = <<"join", Empty(1), b, args.how>>)

====
